---- MODULE Spec2Model ----
(***************************************************************************)
(* The IF_LET_SOME_RESULT late lint pass (OkIfLet::check_expr) of          *)
(* clippy_lints/src/if_let_some_result.rs, as a state machine: the host    *)
(* traversal hands one expression node to check_expr, check_expr decides   *)
(* match / no-match and emits at most one diagnostic, and a fixer may      *)
(* apply a machine-applicable suggestion to the source text, after which   *)
(* the rewritten node is visited again.                                    *)
(*                                                                         *)
(* Source text is a sequence of one-character strings; a span is a pair    *)
(* <<lo, hi>> of byte offsets into the file text, lo inclusive and hi      *)
(* exclusive, as rustc's BytePos spans are.                                *)
(***************************************************************************)
EXTENDS Integers, Sequences, FiniteSets, TLC

VARIABLES
    expr,       \* the HIR expression node the host is visiting
    file,       \* the text of the source file holding expr
    pc,         \* "idle" | "visit" (check_expr about to run) | "done"
    outcome,    \* "none" | "nomatch" | "match" | "panic"
    diags,      \* the diagnostics span_lint_and_sugg received in this invocation
    tyQueries,  \* the receiver expressions whose type was asked of cx.tables
    extracted,  \* for each snippet extraction of this invocation: was it exact
    locals,     \* some_expr_string, trimmed_ok and applicability of this invocation
    applied,    \* TRUE when expr is the result of applying a suggestion
    before      \* the node and diagnostic a suggestion was applied to

vars == <<expr, file, pc, outcome, diags, tyQueries, extracted, locals, applied, before>>

----------------------------------------------------------------------------
\* Bounds of the model.

\* The longest run of whitespace between the receiver and the `.` of the call.
MaxGap == 1

\* The largest number of sub-patterns of a tuple-struct pattern.
MaxSubPats == 2

----------------------------------------------------------------------------
\* Text.

StrSome == <<"S", "o", "m", "e">>
StrOk == <<"O", "k">>
StrOption == <<"O", "p", "t", "i", "o", "n">>
NameOk == <<"o", "k">>
NameParse == <<"p", "a", "r", "s", "e">>
IfLet == <<"i", "f", " ", "l", "e", "t", " ">>
WhileLet == <<"w", "h", "i", "l", "e", " ", "l", "e", "t", " ">>
MatchKw == <<"m", "a", "t", "c", "h", " ">>
Eq == <<" ", "=", " ">>
Block == <<" ", "{", "}">>
ElseBlock == <<" ", "e", "l", "s", "e", " ", "{", "}">>
Prelude == <<"{", " ">>

\* What Rust's char::is_whitespace accepts, among the characters used here.
WhiteSpace == {" ", "\n"}

Gaps == UNION {[1..k -> WhiteSpace] : k \in 0..MaxGap}

\* The texts a sub-pattern is written as: a binding, a tuple pattern.
SubPatTexts == {<<"v">>, <<"(", "a", ",", " ", "b", ")">>}

\* Types, as the definition path the type oracle resolves them to; the empty
\* path stands for a type the oracle could not resolve.
RESULT == <<"core", "result", "Result">>
OPTION == <<"core", "option", "Option">>
Unresolved == <<>>
Types == {RESULT, OPTION, Unresolved}

----------------------------------------------------------------------------
\* Expression nodes.

PathExpr(t) ==
    [kind |-> "Path", name |-> <<>>, args |-> <<>>, gap1 |-> <<>>, gap2 |-> <<>>, ty |-> t]

LitExpr ==
    [kind |-> "Lit", name |-> <<>>, args |-> <<>>, gap1 |-> <<>>, gap2 |-> <<>>, ty |-> Unresolved]

\* A method call: args[1] is the receiver, gap1 the whitespace between the
\* receiver and the dot, gap2 the whitespace between the dot and the name.
CallExpr(m, as, g1, g2, t) ==
    [kind |-> "MethodCall", name |-> m, args |-> as, gap1 |-> g1, gap2 |-> g2, ty |-> t]

Receivers ==
    {PathExpr(t) : t \in Types}
    \cup {CallExpr(m, <<PathExpr(t0)>>, <<>>, <<>>, t) :
            m \in {NameOk, NameParse}, t0 \in {RESULT, OPTION}, t \in Types}

ExtraArgs == {<<>>, <<LitExpr>>}

Scrutinees ==
    {PathExpr(OPTION)}
    \cup {CallExpr(m, <<r>> \o xs, g1, g2, OPTION) :
            m \in {NameOk, NameParse}, r \in Receivers, xs \in ExtraArgs,
            g1 \in Gaps, g2 \in {<<>>, <<" ">>}}

\* Sub-pattern lists: the first sub-pattern varies, the others are `_`.
SubPatLists ==
    {<<>>} \cup {<<s>> \o [i \in 1..k |-> <<"_">>] : s \in SubPatTexts, k \in 0..(MaxSubPats - 1)}

Patterns ==
    {[kind |-> "Binding", qpath |-> "None", path |-> <<>>, subpats |-> <<>>]}
    \cup {[kind |-> "TupleStruct", qpath |-> "TypeRelative", path |-> <<StrSome>>,
           subpats |-> <<<<"v">>>>]}
    \cup {[kind |-> "TupleStruct", qpath |-> "Resolved", path |-> p, subpats |-> ys] :
            p \in {<<StrSome>>, <<StrOption, StrSome>>, <<StrOk>>}, ys \in SubPatLists}

WildArm == [pat |-> [kind |-> "Wild", qpath |-> "None", path |-> <<>>, subpats |-> <<>>]]

MatchExpr(src, op, pat) ==
    [kind |-> "Match", source |-> src, op |-> op, arms |-> <<[pat |-> pat], WildArm>>]

\* The nodes the host traversal visits: match expressions of the three desugar
\* origins, and an expression that is no match at all.
Nodes ==
    {[kind |-> "Path", source |-> "None", op |-> PathExpr(OPTION), arms |-> <<>>]}
    \cup {MatchExpr(src, op, pat) :
            src \in {"IfLetDesugar", "WhileLetDesugar", "Normal"},
            op \in Scrutinees, pat \in Patterns}

----------------------------------------------------------------------------
\* Source text of a node and the spans the parser gives its parts.

RECURSIVE Join(_, _)
Join(parts, sep) ==
    IF parts = <<>> THEN <<>>
    ELSE IF Len(parts) = 1 THEN parts[1]
    ELSE parts[1] \o sep \o Join(Tail(parts), sep)

\* rustc_hir_pretty's print_path: the segments joined by `::`.
print_path(x) == Join(x, <<":", ":">>)

RECURSIVE ExprText(_)
ExprText(e) ==
    CASE e.kind = "Path" -> <<"x">>
      [] e.kind = "Lit" -> <<"1">>
      [] e.kind = "MethodCall" ->
            ExprText(e.args[1]) \o e.gap1 \o <<".">> \o e.gap2 \o e.name \o <<"(">>
            \o Join([i \in 1..(Len(e.args) - 1) |-> ExprText(e.args[i + 1])], <<",", " ">>)
            \o <<")">>

PatText(p) ==
    CASE p.kind = "Binding" -> <<"v">>
      [] p.kind = "Wild" -> <<"_">>
      [] p.kind = "TupleStruct" ->
            (IF p.qpath = "TypeRelative" THEN <<"<", "T", ">", ":", ":">> ELSE <<>>)
            \o print_path(p.path) \o <<"(">>
            \o (IF p.subpats = <<>> THEN <<".", ".">> ELSE Join(p.subpats, <<",", " ">>))
            \o <<")">>

PatOpenLen(p) ==
    Len((IF p.qpath = "TypeRelative" THEN <<"<", "T", ">", ":", ":">> ELSE <<>>)
        \o print_path(p.path) \o <<"(">>)

\* The text of the arm bodies of an if-let: the block and the else block.
ArmsText == Block \o ElseBlock

NodeText(n) ==
    CASE n.kind # "Match" -> ExprText(n.op)
      [] n.kind = "Match" /\ n.source = "IfLetDesugar" ->
            IfLet \o PatText(n.arms[1].pat) \o Eq \o ExprText(n.op) \o ArmsText
      [] n.kind = "Match" /\ n.source = "WhileLetDesugar" ->
            WhileLet \o PatText(n.arms[1].pat) \o Eq \o ExprText(n.op) \o Block
      [] n.kind = "Match" /\ n.source = "Normal" ->
            MatchKw \o ExprText(n.op) \o <<" ", "{", " ">> \o PatText(n.arms[1].pat)
            \o <<" ", "=", ">", " ", "{", "}", ",", " ", "_", " ", "=", ">", " ", "{", "}", " ", "}">>

FileText(n) == Prelude \o NodeText(n)

\* Spans of an if-let node, the only nodes whose spans check_expr reads.
ExprSpan(n) == <<Len(Prelude), Len(Prelude) + Len(NodeText(n))>>

OpLo(n) == Len(Prelude) + Len(IfLet) + Len(PatText(n.arms[1].pat)) + Len(Eq)

OpSpan(n) == <<OpLo(n), OpLo(n) + Len(ExprText(n.op))>>

\* The span of the method name and argument list, without receiver and dot.
OkSpan(n) ==
    <<OpLo(n) + Len(ExprText(n.op.args[1])) + Len(n.op.gap1) + Len(<<".">>) + Len(n.op.gap2),
      OpLo(n) + Len(ExprText(n.op))>>

SubPatSpan(n) ==
    <<Len(Prelude) + Len(IfLet) + PatOpenLen(n.arms[1].pat),
      Len(Prelude) + Len(IfLet) + PatOpenLen(n.arms[1].pat) + Len(n.arms[1].pat.subpats[1])>>

\* Span::until: from the start of one span to the start of the other.
SpanUntil(a, b) == <<a[1], b[1]>>

\* Span::with_hi.
SpanWithHi(a, hi) == <<a[1], hi>>

\* The text a span covers.
SpanText(text, sp) == SubSeq(text, sp[1] + 1, sp[2])

----------------------------------------------------------------------------
\* The helpers check_expr calls.

NoArgs == [some |-> FALSE, args |-> <<>>]

\* utils::method_chain_args: walks the chain from the outermost call inwards;
\* each call must carry the expected name and nothing besides its receiver.
RECURSIVE method_chain_args(_, _)
method_chain_args(e, methods) ==
    IF methods = <<>> THEN [some |-> TRUE, args |-> <<>>]
    ELSE IF e.kind = "MethodCall" /\ e.name = methods[Len(methods)] /\ Len(e.args) = 1
    THEN LET rest == method_chain_args(e.args[1], SubSeq(methods, 1, Len(methods) - 1))
         IN  IF rest.some THEN [some |-> TRUE, args |-> Append(rest.args, e.args)]
             ELSE NoArgs
    ELSE NoArgs

\* cx.tables.expr_ty: the type the oracle resolved for an expression.
expr_ty(e) == e.ty

\* utils::match_type: the type's definition path is the given one; an
\* unresolved type has no definition path and matches nothing.
match_type(ty, path) == ty # Unresolved /\ ty = path

\* utils::snippet_with_applicability: the text of the span, or on fallback
\* the default, with a MachineApplicable applicability downgraded.
snippet_with_applicability(text, sp, default, applicability, exact) ==
    IF exact THEN [text |-> SpanText(text, sp), applicability |-> applicability]
    ELSE [text |-> default,
          applicability |-> IF applicability = "MachineApplicable" THEN "HasPlaceholders"
                            ELSE applicability]

\* str::trim_end_matches(c).
RECURSIVE trim_end_matches(_, _)
trim_end_matches(s, c) ==
    IF s # <<>> /\ s[Len(s)] = c THEN trim_end_matches(SubSeq(s, 1, Len(s) - 1), c) ELSE s

RECURSIVE trim_start(_)
trim_start(s) ==
    IF s # <<>> /\ s[1] \in WhiteSpace THEN trim_start(Tail(s)) ELSE s

RECURSIVE trim_end(_)
trim_end(s) ==
    IF s # <<>> /\ s[Len(s)] \in WhiteSpace THEN trim_end(SubSeq(s, 1, Len(s) - 1)) ELSE s

\* str::trim: leading and trailing whitespace removed.
trim(s) == trim_end(trim_start(s))

----------------------------------------------------------------------------
\* OkIfLet::check_expr, condition by condition.

IsIfLetDesugarAnySource(e) == e.kind = "Match"

\* expr.kind is a Match whose source is IfLetDesugar.
IsIfLetDesugar(e) == e.kind = "Match" /\ e.source = "IfLetDesugar"

\* op.kind is a MethodCall.
IsMethodCall(op) == op.kind = "MethodCall"

\* body[0].pat.kind is a TupleStruct with a QPath::Resolved path.
IsResolvedTupleStruct(pat) == pat.kind = "TupleStruct" /\ pat.qpath = "Resolved"

HasOkChainAnyCall(op) == TRUE

\* method_chain_args(op, &["ok"]).is_some().
HasOkChain(op) == method_chain_args(op, <<NameOk>>).some

TyQueryReachedBeforeChain(e) ==
    /\ IsIfLetDesugar(e)
    /\ IsMethodCall(e.op)
    /\ IsResolvedTupleStruct(e.arms[1].pat)

\* The conditions in front of the `let is_result_type = ...` binding: when
\* they hold the binding is evaluated and the receiver's type is queried.
TyQueryReached(e) ==
    /\ IsIfLetDesugar(e)
    /\ IsMethodCall(e.op)
    /\ IsResolvedTupleStruct(e.arms[1].pat)
    /\ HasOkChain(e.op)

\* let is_result_type = match_type(cx, cx.tables.expr_ty(&result_types[0]), &paths::RESULT).
is_result_type(e) == match_type(expr_ty(e.op.args[1]), RESULT)

LastGuardNoType(e) == print_path(e.arms[1].pat.path) = StrSome

LastGuardNoName(e) == is_result_type(e)

\* The last condition: the path renders "Some" and the receiver is a Result.
LastGuard(e) == print_path(e.arms[1].pat.path) = StrSome /\ is_result_type(e)

\* The whole if_chain.
Matches(e) == TyQueryReached(e) /\ LastGuard(e)

\* y[0] on an empty sub-pattern list is an index out of bounds.
IndexPanics(e) == Len(e.arms[1].pat.subpats) = 0

SnippetsFreshApplicability(text, e, ex1, ex2) ==
    LET a == snippet_with_applicability(text, SubPatSpan(e), <<>>, "MachineApplicable", ex1)
        b == snippet_with_applicability(text, SpanUntil(OpSpan(e), OkSpan(e)), <<>>,
                                        "MachineApplicable", ex2)
    IN  [some_expr_string |-> a.text, trimmed_ok |-> b.text, applicability |-> b.applicability]

SnippetsWholePattern(text, e, ex1, ex2) ==
    LET a == snippet_with_applicability(
                 text, <<Len(Prelude) + Len(IfLet), OpLo(e) - Len(Eq)>>, <<>>,
                 "MachineApplicable", ex1)
        b == snippet_with_applicability(text, SpanUntil(OpSpan(e), OkSpan(e)), <<>>,
                                        a.applicability, ex2)
    IN  [some_expr_string |-> a.text, trimmed_ok |-> b.text, applicability |-> b.applicability]

\* The two extractions, the one applicability threaded through both.
Snippets(text, e, ex1, ex2) ==
    LET a == snippet_with_applicability(text, SubPatSpan(e), <<>>, "MachineApplicable", ex1)
        b == snippet_with_applicability(text, SpanUntil(OpSpan(e), OkSpan(e)), <<>>,
                                        a.applicability, ex2)
    IN  [some_expr_string |-> a.text, trimmed_ok |-> b.text, applicability |-> b.applicability]

IfLetOk == <<"i", "f", " ", "l", "e", "t", " ", "O", "k", "(">>
CloseEq == <<")", " ", "=", " ">>

\* format!("if let Ok({}) = {}", some_expr_string, trimmed_ok.trim().trim_end_matches('.')).
Sugg(some_expr_string, trimmed_ok) ==
    IfLetOk \o some_expr_string \o CloseEq \o trim_end_matches(trim(trimmed_ok), ".")

ReportSpanWholeExpr(e) == ExprSpan(e)

\* expr.span.with_hi(op.span.hi()).
ReportSpan(e) == SpanWithHi(ExprSpan(e), OpSpan(e)[2])

\* The arguments span_lint_and_sugg receives (the messages without their
\* backquotes).
Diagnostic(e, s) ==
    [lint |-> "IF_LET_SOME_RESULT",
     span |-> ReportSpan(e),
     msg |-> "Matching on Some with ok() is redundant",
     help |-> <<"Consider matching on Ok(", s.some_expr_string,
                ") and removing the call to ok instead">>,
     sugg |-> Sugg(s.some_expr_string, s.trimmed_ok),
     applicability |-> s.applicability]

NoLocals == [some_expr_string |-> <<>>, trimmed_ok |-> <<>>, applicability |-> "None"]

----------------------------------------------------------------------------
\* The state machine.

NoBefore == [expr |-> <<>>, file |-> <<>>, diag |-> <<>>]

Init ==
    /\ expr = <<>>
    /\ file = <<>>
    /\ pc = "idle"
    /\ outcome = "none"
    /\ diags = <<>>
    /\ tyQueries = <<>>
    /\ extracted = <<>>
    /\ locals = NoLocals
    /\ applied = FALSE
    /\ before = NoBefore

\* The host traversal reaches a node and is about to call check_expr on it.
Visit(n) ==
    /\ pc = "idle"
    /\ expr' = n
    /\ file' = FileText(n)
    /\ pc' = "visit"
    /\ outcome' = "none"
    /\ diags' = <<>>
    /\ tyQueries' = <<>>
    /\ extracted' = <<>>
    /\ locals' = NoLocals
    /\ applied' = FALSE
    /\ before' = NoBefore

\* One invocation of check_expr on the node being visited.
check_expr ==
    /\ pc = "visit"
    /\ pc' = "done"
    /\ tyQueries' = IF TyQueryReached(expr) THEN <<expr.op.args[1]>> ELSE <<>>
    /\ IF ~Matches(expr)
       THEN /\ outcome' = "nomatch"
            /\ UNCHANGED <<diags, extracted, locals>>
       ELSE IF IndexPanics(expr)
       THEN /\ outcome' = "panic"
            /\ UNCHANGED <<diags, extracted, locals>>
       ELSE \E ex1 \in BOOLEAN, ex2 \in BOOLEAN :
                LET s == Snippets(file, expr, ex1, ex2)
                IN  /\ outcome' = "match"
                    /\ extracted' = <<ex1, ex2>>
                    /\ locals' = s
                    /\ diags' = Append(diags, Diagnostic(expr, s))
    /\ UNCHANGED <<expr, file, applied, before>>

\* Text up to the first occurrence of a character.
RECURSIVE TakeUntil(_, _)
TakeUntil(s, c) ==
    IF s = <<>> \/ s[1] = c THEN <<>> ELSE <<s[1]>> \o TakeUntil(Tail(s), c)

\* The pattern path the parser reads in the text of an if-let at offset lo.
ParsedPatPath(text, lo) ==
    <<TakeUntil(SubSeq(text, lo + Len(IfLet) + 1, Len(text)), "(")>>

\* A fixer replaces the reported span by a machine-applicable suggestion; the
\* node is parsed again from the new text: its pattern is what the text now
\* names, its scrutinee the former receiver, its arms as they were.
ApplySuggestion ==
    /\ pc = "done"
    /\ outcome = "match"
    /\ ~applied
    /\ diags[1].applicability = "MachineApplicable"
    /\ LET d == diags[1]
           text == SubSeq(file, 1, d.span[1]) \o d.sugg \o SubSeq(file, d.span[2] + 1, Len(file))
       IN  /\ file' = text
           /\ expr' = MatchExpr("IfLetDesugar", expr.op.args[1],
                                [kind |-> "TupleStruct", qpath |-> "Resolved",
                                 path |-> ParsedPatPath(text, d.span[1]),
                                 subpats |-> <<locals.some_expr_string>>])
           /\ before' = [expr |-> expr, file |-> file, diag |-> d]
    /\ applied' = TRUE
    /\ pc' = "visit"
    /\ outcome' = "none"
    /\ diags' = <<>>
    /\ tyQueries' = <<>>
    /\ extracted' = <<>>
    /\ locals' = NoLocals

\* check_expr has returned and the traversal leaves the node; nothing of the
\* invocation is kept. A panic of a lint pass ends the compiler session:
\* the traversal does not go on after it.
Leave ==
    /\ pc = "done"
    /\ outcome # "panic"
    /\ expr' = <<>>
    /\ file' = <<>>
    /\ pc' = "idle"
    /\ outcome' = "none"
    /\ diags' = <<>>
    /\ tyQueries' = <<>>
    /\ extracted' = <<>>
    /\ locals' = NoLocals
    /\ applied' = FALSE
    /\ before' = NoBefore

\* The traversal goes on to some node of the tree.
Traverse == pc = "idle" /\ \E n \in Nodes : Visit(n)

Next ==
    \/ Traverse
    \/ check_expr
    \/ ApplySuggestion
    \/ Leave

Spec == Init /\ [][Next]_vars

----------------------------------------------------------------------------
\* Properties.

Done == pc = "done"

Emitted == diags # <<>>

Silent == outcome = "nomatch" /\ diags = <<>>

FirstPat == expr.arms[1].pat

Receiver == expr.op.args[1]

\* The part of a suggestion after `if let Ok(<inner>) = `.
SuggPrefix(d) ==
    SubSeq(d.sugg, Len(IfLetOk) + Len(locals.some_expr_string) + Len(CloseEq) + 1, Len(d.sugg))

\* C1: a node that is not a match expression of if-let origin (an explicit
\* match, a while-let, an expression that is no match) ends in no-match and
\* no diagnostic, whatever its scrutinee, patterns and receiver type are.
C1_NotIfLetIsNoMatch ==
    (Done /\ ~(expr.kind = "Match" /\ expr.source = "IfLetDesugar")) => Silent

\* An explicit match and a while-let of the very shape the lint looks for.
C1_Witness ==
    /\ Done
    /\ expr.kind = "Match"
    /\ expr.source \in {"Normal", "WhileLetDesugar"}
    /\ expr.op.kind = "MethodCall"
    /\ expr.op.name = NameOk
    /\ Len(expr.op.args) = 1
    /\ Receiver.ty = RESULT
    /\ FirstPat.kind = "TupleStruct"
    /\ FirstPat.path = <<StrSome>>
    /\ Len(FirstPat.subpats) = 1
    /\ Silent

\* C2: an if-let whose scrutinee is a call named ok and whose first pattern
\* is Some(..), with a receiver whose type is not Result or is unresolved,
\* ends in no diagnostic.
C2_NonResultReceiverIsSilent ==
    (/\ Done
     /\ expr.kind = "Match"
     /\ expr.source = "IfLetDesugar"
     /\ expr.op.kind = "MethodCall"
     /\ expr.op.name = NameOk
     /\ FirstPat.kind = "TupleStruct"
     /\ FirstPat.path = <<StrSome>>
     /\ Receiver.ty # RESULT)
    => Silent

C2_Witness ==
    /\ Done
    /\ expr.kind = "Match"
    /\ expr.source = "IfLetDesugar"
    /\ expr.op.kind = "MethodCall"
    /\ expr.op.name = NameOk
    /\ Len(expr.op.args) = 1
    /\ FirstPat.kind = "TupleStruct"
    /\ FirstPat.qpath = "Resolved"
    /\ FirstPat.path = <<StrSome>>
    /\ Len(FirstPat.subpats) = 1
    /\ Receiver.ty = Unresolved
    /\ tyQueries # <<>>
    /\ Silent

\* C3: check_expr never aborts: every invocation ends in match with exactly
\* one diagnostic or in no-match with none.
C3_NeverAborts ==
    Done => \/ outcome = "match" /\ Len(diags) = 1
            \/ outcome = "nomatch" /\ diags = <<>>

\* C4 as stated: every emitted suggestion is `if let Ok(` + inner + `) = ` +
\* prefix with inner the source text of the arm's first sub-pattern.
C4_InnerIsSourceText ==
    (Done /\ outcome = "match") =>
        diags[1].sugg = IfLetOk \o FirstPat.subpats[1] \o CloseEq \o SuggPrefix(diags[1])

\* C4 as amended: inner is the source text of the sub-pattern when its
\* extraction was exact and the empty placeholder when it fell back.
C4_InnerIsExtractedText ==
    (Done /\ outcome = "match") =>
        LET inner == IF extracted[1] THEN FirstPat.subpats[1] ELSE <<>>
        IN  /\ locals.some_expr_string = inner
            /\ diags[1].sugg = IfLetOk \o inner \o CloseEq \o SuggPrefix(diags[1])

\* The tuple sub-pattern of scenario 4, extracted exactly.
C4_Witness ==
    /\ Done
    /\ outcome = "match"
    /\ extracted[1]
    /\ FirstPat.subpats[1] = <<"(", "a", ",", " ", "b", ")">>
    /\ IfLetOk \o <<"(", "a", ",", " ", "b", ")">> \o CloseEq \o <<"x">> = diags[1].sugg

\* C5: the prefix of every emitted suggestion ends neither in `.` nor in a
\* whitespace character, for every layout of receiver, whitespace and dot.
C5_PrefixIsTrimmed ==
    (Done /\ outcome = "match") =>
        LET p == SuggPrefix(diags[1])
        IN  p = <<>> \/ p[Len(p)] \notin (WhiteSpace \cup {"."})

\* C6: a diagnostic is emitted only for a scrutinee that is itself a call
\* named ok with no argument besides its receiver; an ok call with arguments,
\* and an ok call that is not the outermost call, end in no-match.
C6_OnlyOutermostNullaryOk ==
    /\ Emitted =>
          /\ expr.op.kind = "MethodCall"
          /\ expr.op.name = NameOk
          /\ Len(expr.op.args) = 1
    /\ (/\ Done
        /\ expr.kind = "Match"
        /\ expr.op.kind = "MethodCall"
        /\ \/ expr.op.name = NameOk /\ Len(expr.op.args) > 1
           \/ expr.op.name # NameOk)
       => Silent

\* An if-let on Some(v) whose scrutinee is not a plain outermost ok(): the
\* call carries an argument, or ok() is the receiver of another call.
C6_Witness ==
    /\ Done
    /\ expr.kind = "Match"
    /\ expr.source = "IfLetDesugar"
    /\ FirstPat.kind = "TupleStruct"
    /\ FirstPat.qpath = "Resolved"
    /\ FirstPat.path = <<StrSome>>
    /\ Len(FirstPat.subpats) = 1
    /\ expr.op.kind = "MethodCall"
    /\ Receiver.ty = RESULT
    /\ \/ expr.op.name = NameOk /\ Len(expr.op.args) > 1
       \/ expr.op.name # NameOk /\ Receiver.kind = "MethodCall" /\ Receiver.name = NameOk
    /\ Silent

\* C7: the forwarded applicability is MachineApplicable exactly when both
\* extractions were exact; a fallback of either one downgrades it, a
\* successful second extraction does not undo the downgrade of the first,
\* and the diagnostic is emitted all the same.
C7_ApplicabilityIffBothExact ==
    (Done /\ outcome = "match") =>
        /\ Len(diags) = 1
        /\ Len(extracted) = 2
        /\ (diags[1].applicability = "MachineApplicable") <=> (extracted[1] /\ extracted[2])
        /\ ~(extracted[1] /\ extracted[2]) => diags[1].applicability = "HasPlaceholders"

\* The first extraction fell back and the second was exact.
C7_Witness ==
    /\ Done
    /\ outcome = "match"
    /\ extracted = <<FALSE, TRUE>>
    /\ Len(diags) = 1
    /\ diags[1].applicability = "HasPlaceholders"

\* C8: the node obtained by applying an emitted suggestion is a no-match.
C8_RewriteIsNoMatch ==
    (Done /\ applied) => Silent

\* A rewritten if-let whose new scrutinee is again an ok() call on a Result.
C8_Witness ==
    /\ Done
    /\ applied
    /\ FirstPat.path = <<StrOk>>
    /\ expr.op.kind = "MethodCall"
    /\ expr.op.name = NameOk
    /\ Receiver.ty = RESULT
    /\ before.diag.sugg = SubSeq(file, Len(Prelude) + 1, Len(Prelude) + Len(before.diag.sugg))
    /\ Silent

\* C9: the reported span runs from the start of the if-let to the end of the
\* scrutinee: the text it covers is `if let <pat> = <scrutinee>`, the text
\* after it is the arm bodies, and applying the suggestion leaves that text
\* as it was.
C9_SpanEndsAtScrutinee ==
    /\ (Done /\ outcome = "match") =>
          /\ diags[1].span[1] = Len(Prelude)
          /\ SpanText(file, diags[1].span)
                = IfLet \o PatText(FirstPat) \o Eq \o ExprText(expr.op)
          /\ SubSeq(file, diags[1].span[2] + 1, Len(file)) = ArmsText
    /\ applied =>
          file = SubSeq(before.file, 1, Len(Prelude)) \o before.diag.sugg \o ArmsText

C9_Witness ==
    /\ applied
    /\ Done
    /\ before.diag.span = <<Len(Prelude), Len(before.file) - Len(ArmsText)>>
    /\ SubSeq(file, Len(file) - Len(ArmsText) + 1, Len(file)) = ArmsText

\* C10 as stated: no type query is made unless the node is an if-let, the
\* scrutinee a method call, the first pattern a tuple-struct pattern whose
\* path renders exactly `Some`, and the scrutinee an ok call chain.
C10_QueryOnlyAfterSomeCheck ==
    Done =>
        \/ tyQueries = <<>>
        \/ /\ expr.kind = "Match"
           /\ expr.source = "IfLetDesugar"
           /\ expr.op.kind = "MethodCall"
           /\ FirstPat.kind = "TupleStruct"
           /\ print_path(FirstPat.path) = StrSome
           /\ expr.op.name = NameOk

\* C10 as amended: no type query is made unless the node is an if-let, the
\* scrutinee a method call, the first pattern a tuple-struct pattern with a
\* resolved path (of any name), and the scrutinee an ok call chain; when a
\* query is made it is the one query for the receiver's type.
C10_QueryOnlyAfterStructure ==
    Done =>
        \/ tyQueries = <<>>
        \/ /\ expr.kind = "Match"
           /\ expr.source = "IfLetDesugar"
           /\ expr.op.kind = "MethodCall"
           /\ FirstPat.kind = "TupleStruct"
           /\ FirstPat.qpath = "Resolved"
           /\ expr.op.name = NameOk
           /\ Len(expr.op.args) = 1
           /\ tyQueries = <<Receiver>>

\* The type is queried for an if-let on Ok(v) with an ok() scrutinee.
C10_Witness ==
    /\ Done
    /\ tyQueries # <<>>
    /\ FirstPat.path = <<StrOk>>
    /\ outcome = "nomatch"

====
